---- MODULE Spec2Model ----
(***************************************************************************)
(* Model of load_products.py and load_reports.py: the blob reader          *)
(* (load_docs_from_blob), the embedding client with its bounded            *)
(* exponential back-off (get_embedding) and the batching driver            *)
(* (process_and_upload).  Python strings that the code inspects (blob      *)
(* names, exception texts) are tuples of one-character strings so that     *)
(* str.endswith and the "in" substring test are computed, not assumed.     *)
(***************************************************************************)
EXTENDS Integers, Sequences, FiniteSets, TLC

VARIABLES
    entry,        \* which function of the module was invoked
    pc,           \* position inside process_and_upload
    batch_size,   \* parameter of process_and_upload
    blob_name,    \* parameter of load_docs_from_blob
    blob_content, \* what the object store holds under blob_name
    load_pc,      \* position inside load_docs_from_blob
    load_kind,    \* parser branch taken by load_docs_from_blob
    load_docs,    \* value returned by load_docs_from_blob
    load_error,   \* exception raised by load_docs_from_blob
    raw_docs,     \* the sequence process_and_upload iterates over
    i,            \* enumerate(..., start=1) counter
    doc,          \* the document under construction
    batch,        \* the pending batch
    uploads,      \* arguments of the upload_documents calls made, in order
    trace,        \* upload calls and time.sleep(1) pauses, in order
    uuid_count,   \* number of uuid4() values drawn
    emb_log,      \* embeddings returned to process_and_upload, per record
    error,        \* exception that ended process_and_upload
    emb_pc,       \* position inside get_embedding
    text,         \* parameter of get_embedding
    max_retries,  \* parameter of get_embedding
    attempt,      \* loop variable of get_embedding
    calls,        \* embeddings.create calls made by this invocation
    sleeps,       \* time.sleep arguments of this invocation, in order
    emb_result,   \* value returned by get_embedding
    exc,          \* the exception bound to e inside the except clause
    emb_error     \* exception raised by get_embedding

vars == <<entry, pc, batch_size, blob_name, blob_content, load_pc, load_kind,
          load_docs, load_error, raw_docs, i, doc, batch, uploads, trace,
          uuid_count, emb_log, error, emb_pc, text, max_retries, attempt,
          calls, sleeps, emb_result, exc, emb_error>>

loadVars == <<blob_name, blob_content, load_pc, load_kind, load_docs, load_error>>
embVars  == <<emb_pc, text, max_retries, attempt, calls, sleeps, emb_result,
              exc, emb_error>>
mainVars == <<pc, batch_size, raw_docs, i, doc, batch, uploads, trace,
              uuid_count, emb_log, error>>

----------------------------------------------------------------------------
(* Bounds of the exploration *)
MaxRetries == 4
MaxDocs == 5
MaxBatch == 3

(* Program constants *)
DefaultMaxRetries == 5
PauseSeconds == 1

None == "None"
NoError == [type |-> "none", text |-> <<>>]
NoDoc == [chunk_id |-> 0]

----------------------------------------------------------------------------
(* Python string primitives *)

EndsWithAnywhere(s, suffix) ==
    \E k \in 1..(Len(s) - Len(suffix) + 1) :
        SubSeq(s, k, k + Len(suffix) - 1) = suffix

\* str.endswith
EndsWith(s, suffix) ==
    /\ Len(s) >= Len(suffix)
    /\ SubSeq(s, Len(s) - Len(suffix) + 1, Len(s)) = suffix

\* the "in" operator on two strings
Contains(s, sub) ==
    \E k \in 1..(Len(s) - Len(sub) + 1) :
        SubSeq(s, k, k + Len(sub) - 1) = sub

RECURSIVE Pow2(_)
Pow2(n) == IF n <= 0 THEN 1 ELSE 2 * Pow2(n - 1)

----------------------------------------------------------------------------
(* The embedding service as seen by get_embedding *)

Vectors == { <<1, 0>>, <<0, 1>> }

RateLimitError == [type |-> "RateLimitError",
                   text |-> <<"c","o","d","e"," ","4","2","9">>]
AuthError      == [type |-> "AuthenticationError",
                   text |-> <<"c","o","d","e"," ","4","0","1">>]
TimeoutError   == [type |-> "APITimeoutError",
                   text |-> <<"t","i","m","e","d"," ","o","u","t">>]
\* not a rate-limit answer, yet its text holds the characters 429
RequestIdError == [type |-> "APIError",
                   text |-> <<"i","d"," ","1","4","2","9","0">>]
ServiceErrors  == {RateLimitError, AuthError, TimeoutError, RequestIdError}
ExhaustedRetries == [type |-> "RuntimeError",
                     text |-> <<"F","a","i","l","e","d">>]

IsRateLimitAlways(e) == TRUE

\* "429" in str(e)
IsRateLimit(e) == Contains(e.text, <<"4","2","9">>)

WaitTimeLinear(n) == n + 1

\* wait_time = 2 ** attempt
WaitTime(n) == Pow2(n)

NextAttemptSkip(n) == n + 2

\* the successor of n in range(max_retries)
NextAttempt(n) == n + 1

InRangeInclusive(n, stop) == n <= stop

\* membership of n in range(stop), n counting up from 0
InRange(n, stop) == n < stop

\* for attempt in range(max_retries): next value, or fall out of the loop
\* into raise RuntimeError("Failed after retries")
EmbFor ==
    /\ emb_pc = "for"
    /\ IF InRange(attempt, max_retries)
          THEN /\ emb_pc' = "try"
               /\ UNCHANGED emb_error
          ELSE /\ emb_pc' = "raised"
               /\ emb_error' = ExhaustedRetries
    /\ UNCHANGED <<text, max_retries, attempt, calls, sleeps, emb_result, exc>>
    /\ UNCHANGED <<entry, mainVars, loadVars>>

\* openai_client.embeddings.create(...) answers with an embedding
EmbCreateOk ==
    /\ emb_pc = "try"
    /\ \E v \in Vectors :
          /\ emb_result' = v
          /\ emb_pc' = "returned"
    /\ calls' = calls + 1
    /\ UNCHANGED <<text, max_retries, attempt, sleeps, exc, emb_error>>
    /\ UNCHANGED <<entry, mainVars, loadVars>>

\* openai_client.embeddings.create(...) raises; the except clause classifies
EmbCreateFails ==
    /\ emb_pc = "try"
    /\ calls' = calls + 1
    /\ \E e \in ServiceErrors :
          /\ exc' = e
          /\ IF IsRateLimit(e)
                THEN /\ emb_pc' = "sleep"
                     /\ UNCHANGED emb_error
                ELSE /\ emb_pc' = "raised"
                     /\ emb_error' = e
    /\ UNCHANGED <<text, max_retries, attempt, sleeps, emb_result>>
    /\ UNCHANGED <<entry, mainVars, loadVars>>

\* time.sleep(wait_time); the except clause ends (e is unbound) and the
\* loop advances
EmbSleep ==
    /\ emb_pc = "sleep"
    /\ sleeps' = Append(sleeps, WaitTime(attempt))
    /\ attempt' = NextAttempt(attempt)
    /\ exc' = NoError
    /\ emb_pc' = "for"
    /\ UNCHANGED <<text, max_retries, calls, emb_result, emb_error>>
    /\ UNCHANGED <<entry, mainVars, loadVars>>

----------------------------------------------------------------------------
(* load_docs_from_blob *)

CsvExt  == <<".","c","s","v">>
JsonExt == <<".","j","s","o","n">>

BlobNames ==
    { <<"p",".","c","s","v">>,
      <<"p",".","j","s","o","n">>,
      <<".","c","s","v">>,
      <<"p",".","c","s","v",".","j","s","o","n">>,
      <<"p",".","t","x","t">>,
      <<"p",".","C","S","V">>,
      <<"p",".","c","s","v",".","b","a","k">>,
      <<"j","s","o","n">> }

\* one CSV data row / JSON array element; the k-th carries a distinct name
Row(k) == [name |-> ToString(k),
           parent_id |-> IF k % 2 = 1 THEN "p" \o ToString(k) ELSE None]

Rows(n) == [k \in 1..n |-> Row(k)]

\* A blob is described by what each parser makes of its text:
\* csv.DictReader accepts any text, json.loads only JSON.
CsvBlob(n)  == [exists |-> TRUE, utf8 |-> TRUE, csv_rows |-> n,
                json_valid |-> FALSE, json_len |-> 0]
JsonBlob(n) == [exists |-> TRUE, utf8 |-> TRUE, csv_rows |-> 0,
                json_valid |-> TRUE, json_len |-> n]
BinaryBlob  == [exists |-> TRUE, utf8 |-> FALSE, csv_rows |-> 0,
                json_valid |-> FALSE, json_len |-> 0]
MissingBlob == [exists |-> FALSE, utf8 |-> FALSE, csv_rows |-> 0,
                json_valid |-> FALSE, json_len |-> 0]

BlobContents ==
    {CsvBlob(n) : n \in 0..MaxDocs} \cup {JsonBlob(n) : n \in 0..MaxDocs}
        \cup {BinaryBlob, MissingBlob}

ResourceNotFound == [type |-> "ResourceNotFoundError", text |-> <<>>]
UnicodeError     == [type |-> "UnicodeDecodeError", text |-> <<>>]
JSONDecodeError  == [type |-> "JSONDecodeError", text |-> <<>>]
UnsupportedFormat == [type |-> "ValueError",
                      text |-> <<"U","n","s","u","p","p","o","r","t","e","d">>]

\* blob_client.download_blob().readinto(download_stream)
LoadDownload ==
    /\ load_pc = "download"
    /\ IF blob_content.exists
          THEN /\ load_pc' = "decode"
               /\ UNCHANGED load_error
          ELSE /\ load_pc' = "raised"
               /\ load_error' = ResourceNotFound
    /\ UNCHANGED <<blob_name, blob_content, load_kind, load_docs>>
    /\ UNCHANGED <<entry, mainVars, embVars>>

\* download_stream.read().decode('utf-8')
LoadDecode ==
    /\ load_pc = "decode"
    /\ IF blob_content.utf8
          THEN /\ load_pc' = "dispatch"
               /\ UNCHANGED load_error
          ELSE /\ load_pc' = "raised"
               /\ load_error' = UnicodeError
    /\ UNCHANGED <<blob_name, blob_content, load_kind, load_docs>>
    /\ UNCHANGED <<entry, mainVars, embVars>>

\* if blob_name.endswith(".csv") ... elif blob_name.endswith(".json") ... else raise
LoadDispatch ==
    /\ load_pc = "dispatch"
    /\ IF EndsWith(blob_name, CsvExt)
          THEN /\ load_kind' = "rows"
               /\ load_docs' = Rows(blob_content.csv_rows)
               /\ load_pc' = "returned"
               /\ UNCHANGED load_error
          ELSE IF EndsWith(blob_name, JsonExt)
          THEN /\ load_kind' = "json"
               /\ IF blob_content.json_valid
                     THEN /\ load_docs' = Rows(blob_content.json_len)
                          /\ load_pc' = "returned"
                          /\ UNCHANGED load_error
                     ELSE /\ load_pc' = "raised"
                          /\ load_error' = JSONDecodeError
                          /\ UNCHANGED load_docs
          ELSE /\ load_pc' = "raised"
               /\ load_error' = UnsupportedFormat
               /\ UNCHANGED <<load_kind, load_docs>>
    /\ UNCHANGED <<blob_name, blob_content>>
    /\ UNCHANGED <<entry, mainVars, embVars>>

----------------------------------------------------------------------------
(* transform_doc and the documents of the two scripts *)

\* dict.get(key, default)
Get(r, key, default) == IF key \in DOMAIN r THEN r[key] ELSE default

\* x or ""
OrEmpty(x) == IF x = None \/ x = "" THEN "" ELSE x

\* load_products.transform_doc; id stands for the fresh uuid4 value
TransformDoc(raw_doc, id) ==
    [chunk_id      |-> id,
     parent_id     |-> OrEmpty(Get(raw_doc, "parent_id", "")),
     main_category |-> Get(raw_doc, "main_category", ""),
     sub_category  |-> Get(raw_doc, "sub_category", ""),
     chunk         |-> Get(raw_doc, "name", "") \o ". "]

\* doc["text_vector"] = embedding
AttachVector(d, embedding) ==
    [chunk_id      |-> d.chunk_id,
     parent_id     |-> d.parent_id,
     main_category |-> d.main_category,
     sub_category  |-> d.sub_category,
     chunk         |-> d.chunk,
     text_vector   |-> embedding]

PdfUrl == "annualreport-2024.pdf"

\* one element of split_documents' result
Chunk(k) == [page_content |-> "chunk" \o ToString(k),
             metadata |-> [source |-> PdfUrl]]

Chunks(n) == [k \in 1..n |-> Chunk(k)]

\* the dict literal built in load_reports.process_and_upload
ReportDoc(raw_doc, id, embedding) ==
    [chunk_id    |-> id,
     parent_id   |-> "",
     title       |-> raw_doc.metadata.source,
     chunk       |-> raw_doc.page_content,
     text_vector |-> embedding]

PdfError    == [type |-> "PdfLoadError", text |-> <<>>]
UploadError == [type |-> "HttpResponseError", text |-> <<>>]

----------------------------------------------------------------------------
(* process_and_upload *)

ShouldFlushStrict(b, size) == Len(b) > size

\* len(batch) >= batch_size
ShouldFlush(b, size) == Len(b) >= size

HasLeftoverAlways(b) == TRUE

\* if batch:
HasLeftover(b) == b # <<>>

\* raw_docs = load_docs_from_blob(BLOB_CONNECTION_STRING, BLOB_CONTAINER, BLOB_FILE)
CallLoadDocs ==
    /\ entry = "load_products"
    /\ pc = "start"
    /\ load_pc' = "download"
    /\ pc' = "loading"
    /\ UNCHANGED <<blob_name, blob_content, load_kind, load_docs, load_error>>
    /\ UNCHANGED <<batch_size, raw_docs, i, doc, batch, uploads, trace,
                   uuid_count, emb_log, error>>
    /\ UNCHANGED <<entry, embVars>>

\* load_docs_from_blob returned; batch = []
LoadDocsReturned ==
    /\ pc = "loading"
    /\ load_pc = "returned"
    /\ raw_docs' = load_docs
    /\ batch' = <<>>
    /\ pc' = "for"
    /\ UNCHANGED <<batch_size, i, doc, uploads, trace, uuid_count, emb_log, error>>
    /\ UNCHANGED <<entry, loadVars, embVars>>

\* load_docs_from_blob raised: the exception leaves process_and_upload
LoadDocsRaised ==
    /\ pc = "loading"
    /\ load_pc = "raised"
    /\ error' = load_error
    /\ pc' = "failed"
    /\ UNCHANGED <<batch_size, raw_docs, i, doc, batch, uploads, trace,
                   uuid_count, emb_log>>
    /\ UNCHANGED <<entry, loadVars, embVars>>

\* data = get_data_from_pdf(...); batch = []; documents = split_text_into_chunks(...)
LoadReportChunks ==
    /\ entry = "load_reports"
    /\ pc = "start"
    /\ \/ \E n \in 0..MaxDocs :
             /\ raw_docs' = Chunks(n)
             /\ batch' = <<>>
             /\ pc' = "for"
             /\ UNCHANGED error
       \/ /\ error' = PdfError
          /\ pc' = "failed"
          /\ UNCHANGED <<raw_docs, batch>>
    /\ UNCHANGED <<batch_size, i, doc, uploads, trace, uuid_count, emb_log>>
    /\ UNCHANGED <<entry, loadVars, embVars>>

\* for i, raw_doc in enumerate(..., start=1): next record or end of input
ForNext ==
    /\ pc = "for"
    /\ IF i < Len(raw_docs)
          THEN /\ i' = i + 1
               /\ pc' = "body"
          ELSE /\ pc' = "leftover"
               /\ UNCHANGED i
    /\ UNCHANGED <<batch_size, raw_docs, doc, batch, uploads, trace,
                   uuid_count, emb_log, error>>
    /\ UNCHANGED <<entry, loadVars, embVars>>

\* entering get_embedding(t) with the default max_retries
EnterGetEmbedding(t) ==
    /\ emb_pc' = "for"
    /\ text' = t
    /\ max_retries' = DefaultMaxRetries
    /\ attempt' = 0
    /\ calls' = 0
    /\ sleeps' = <<>>
    /\ emb_result' = None
    /\ exc' = NoError
    /\ emb_error' = NoError

\* load_products: doc = transform_doc(raw_doc); get_embedding(doc["chunk"]) is called
TransformAndEmbed ==
    /\ entry = "load_products"
    /\ pc = "body"
    /\ uuid_count' = uuid_count + 1
    /\ doc' = TransformDoc(raw_docs[i], uuid_count + 1)
    /\ EnterGetEmbedding(doc'.chunk)
    /\ pc' = "embedding"
    /\ UNCHANGED <<batch_size, raw_docs, i, batch, uploads, trace, emb_log, error>>
    /\ UNCHANGED <<entry, loadVars>>

\* load_reports: chunk_id, title; get_embedding(raw_doc.page_content) is called
ChunkAndEmbed ==
    /\ entry = "load_reports"
    /\ pc = "body"
    /\ uuid_count' = uuid_count + 1
    /\ EnterGetEmbedding(raw_docs[i].page_content)
    /\ pc' = "embedding"
    /\ UNCHANGED <<batch_size, raw_docs, i, doc, batch, uploads, trace,
                   emb_log, error>>
    /\ UNCHANGED <<entry, loadVars>>

\* get_embedding returned: the vector joins the document, the document the batch
EmbeddingReturned ==
    /\ pc = "embedding"
    /\ emb_pc = "returned"
    /\ doc' = IF entry = "load_products"
                 THEN AttachVector(doc, emb_result)
                 ELSE ReportDoc(raw_docs[i], uuid_count, emb_result)
    /\ batch' = Append(batch, doc')
    /\ emb_log' = Append(emb_log, emb_result)
    /\ pc' = "check"
    /\ emb_pc' = "idle"
    /\ attempt' = 0
    /\ calls' = 0
    /\ sleeps' = <<>>
    /\ emb_result' = None
    /\ UNCHANGED <<text, max_retries, exc, emb_error>>
    /\ UNCHANGED <<batch_size, raw_docs, i, uploads, trace, uuid_count, error>>
    /\ UNCHANGED <<entry, loadVars>>

EmbeddingRaisedSkip ==
    /\ pc = "embedding"
    /\ emb_pc = "raised"
    /\ error' = emb_error
    /\ pc' = "for"
    /\ UNCHANGED <<batch_size, raw_docs, i, doc, batch, uploads, trace,
                   uuid_count, emb_log>>
    /\ UNCHANGED <<entry, loadVars, embVars>>

\* get_embedding raised: nothing catches it, process_and_upload ends
EmbeddingRaised ==
    /\ pc = "embedding"
    /\ emb_pc = "raised"
    /\ error' = emb_error
    /\ pc' = "failed"
    /\ UNCHANGED <<batch_size, raw_docs, i, doc, batch, uploads, trace,
                   uuid_count, emb_log>>
    /\ UNCHANGED <<entry, loadVars, embVars>>

\* if len(batch) >= batch_size:
FlushCheck ==
    /\ pc = "check"
    /\ pc' = IF ShouldFlush(batch, batch_size) THEN "upload" ELSE "for"
    /\ UNCHANGED <<batch_size, raw_docs, i, doc, batch, uploads, trace,
                   uuid_count, emb_log, error>>
    /\ UNCHANGED <<entry, loadVars, embVars>>

\* search_client.upload_documents(documents=batch) succeeds
UploadBatch ==
    /\ pc = "upload"
    /\ uploads' = Append(uploads, batch)
    /\ trace' = Append(trace, <<"upload", Len(batch)>>)
    /\ pc' = "clear"
    /\ UNCHANGED <<batch_size, raw_docs, i, doc, batch, uuid_count, emb_log, error>>
    /\ UNCHANGED <<entry, loadVars, embVars>>

\* search_client.upload_documents(documents=batch) raises
UploadBatchFails ==
    /\ pc = "upload"
    /\ error' = UploadError
    /\ pc' = "failed"
    /\ UNCHANGED <<batch_size, raw_docs, i, doc, batch, uploads, trace,
                   uuid_count, emb_log>>
    /\ UNCHANGED <<entry, loadVars, embVars>>

ClearBatchKeep ==
    /\ pc = "clear"
    /\ pc' = "pause"
    /\ UNCHANGED <<batch_size, raw_docs, i, doc, batch, uploads, trace,
                   uuid_count, emb_log, error>>
    /\ UNCHANGED <<entry, loadVars, embVars>>

\* batch = []
ClearBatch ==
    /\ pc = "clear"
    /\ batch' = <<>>
    /\ pc' = "pause"
    /\ UNCHANGED <<batch_size, raw_docs, i, doc, uploads, trace,
                   uuid_count, emb_log, error>>
    /\ UNCHANGED <<entry, loadVars, embVars>>

PauseSkipped ==
    /\ pc = "pause"
    /\ pc' = "for"
    /\ UNCHANGED <<batch_size, raw_docs, i, doc, batch, uploads, trace,
                   uuid_count, emb_log, error>>
    /\ UNCHANGED <<entry, loadVars, embVars>>

\* time.sleep(1)  # small delay
Pause ==
    /\ pc = "pause"
    /\ trace' = Append(trace, <<"sleep", PauseSeconds>>)
    /\ pc' = "for"
    /\ UNCHANGED <<batch_size, raw_docs, i, doc, batch, uploads,
                   uuid_count, emb_log, error>>
    /\ UNCHANGED <<entry, loadVars, embVars>>

\* # Upload leftover: if batch:
LeftoverCheck ==
    /\ pc = "leftover"
    /\ pc' = IF HasLeftover(batch) THEN "final_upload" ELSE "done"
    /\ UNCHANGED <<batch_size, raw_docs, i, doc, batch, uploads, trace,
                   uuid_count, emb_log, error>>
    /\ UNCHANGED <<entry, loadVars, embVars>>

\* the leftover upload_documents call succeeds; process_and_upload returns
UploadLeftover ==
    /\ pc = "final_upload"
    /\ uploads' = Append(uploads, batch)
    /\ trace' = Append(trace, <<"upload", Len(batch)>>)
    /\ pc' = "done"
    /\ UNCHANGED <<batch_size, raw_docs, i, doc, batch, uuid_count, emb_log, error>>
    /\ UNCHANGED <<entry, loadVars, embVars>>

\* the leftover upload_documents call raises
UploadLeftoverFails ==
    /\ pc = "final_upload"
    /\ error' = UploadError
    /\ pc' = "failed"
    /\ UNCHANGED <<batch_size, raw_docs, i, doc, batch, uploads, trace,
                   uuid_count, emb_log>>
    /\ UNCHANGED <<entry, loadVars, embVars>>

----------------------------------------------------------------------------
(* Initial states: one call of one of the module's functions *)

Texts == {"A. ", ""}

IdleMain ==
    /\ raw_docs = <<>>
    /\ i = 0
    /\ doc = NoDoc
    /\ batch = <<>>
    /\ uploads = <<>>
    /\ trace = <<>>
    /\ uuid_count = 0
    /\ emb_log = <<>>
    /\ error = NoError

IdleLoad ==
    /\ load_kind = "none"
    /\ load_docs = <<>>
    /\ load_error = NoError

IdleEmb ==
    /\ attempt = 0
    /\ calls = 0
    /\ sleeps = <<>>
    /\ emb_result = None
    /\ exc = NoError
    /\ emb_error = NoError

\* get_embedding(text, max_retries) called directly
InitGetEmbedding ==
    /\ entry = "get_embedding"
    /\ pc = "none"
    /\ batch_size = 1
    /\ blob_name = <<>>
    /\ blob_content = MissingBlob
    /\ load_pc = "idle"
    /\ text \in Texts
    /\ max_retries \in 0..MaxRetries
    /\ emb_pc = "for"
    /\ IdleMain /\ IdleLoad /\ IdleEmb

\* load_docs_from_blob(conn, container, blob_name) called directly
InitLoadDocs ==
    /\ entry = "load_docs_from_blob"
    /\ pc = "none"
    /\ batch_size = 1
    /\ blob_name \in BlobNames
    /\ blob_content \in BlobContents
    /\ load_pc = "download"
    /\ text = ""
    /\ max_retries = DefaultMaxRetries
    /\ emb_pc = "idle"
    /\ IdleMain /\ IdleLoad /\ IdleEmb

\* load_products.process_and_upload(batch_size); BLOB_FILE from the environment
InitProducts ==
    /\ entry = "load_products"
    /\ pc = "start"
    /\ batch_size \in 1..MaxBatch
    /\ blob_name \in BlobNames
    /\ blob_content \in BlobContents
    /\ load_pc = "idle"
    /\ text = ""
    /\ max_retries = DefaultMaxRetries
    /\ emb_pc = "idle"
    /\ IdleMain /\ IdleLoad /\ IdleEmb

\* load_reports.process_and_upload(batch_size)
InitReports ==
    /\ entry = "load_reports"
    /\ pc = "start"
    /\ batch_size \in 1..MaxBatch
    /\ blob_name = <<>>
    /\ blob_content = MissingBlob
    /\ load_pc = "idle"
    /\ text = ""
    /\ max_retries = DefaultMaxRetries
    /\ emb_pc = "idle"
    /\ IdleMain /\ IdleLoad /\ IdleEmb

Init == InitGetEmbedding \/ InitLoadDocs \/ InitProducts \/ InitReports

Next ==
    \/ EmbFor
    \/ EmbCreateOk
    \/ EmbCreateFails
    \/ EmbSleep
    \/ LoadDownload
    \/ LoadDecode
    \/ LoadDispatch
    \/ CallLoadDocs
    \/ LoadDocsReturned
    \/ LoadDocsRaised
    \/ LoadReportChunks
    \/ ForNext
    \/ TransformAndEmbed
    \/ ChunkAndEmbed
    \/ EmbeddingReturned
    \/ EmbeddingRaised
    \/ FlushCheck
    \/ UploadBatch
    \/ UploadBatchFails
    \/ ClearBatch
    \/ Pause
    \/ LeftoverCheck
    \/ UploadLeftover
    \/ UploadLeftoverFails

Spec == Init /\ [][Next]_vars

----------------------------------------------------------------------------
(* Properties *)

InPipeline == entry \in {"load_products", "load_reports"}

RECURSIVE Flatten(_)
Flatten(ss) == IF ss = <<>> THEN <<>> ELSE Head(ss) \o Flatten(Tail(ss))

\* ceil(n / b) for b >= 1
CeilDiv(n, b) == (n + b - 1) \div b

Has429(e) == \E k \in 1..(Len(e.text) - 2) :
                e.text[k] = "4" /\ e.text[k+1] = "2" /\ e.text[k+2] = "9"

\* C1: when get_embedding returns, the service was called exactly N+1 times,
\* N < max_retries being the number of rate-limit answers before the success,
\* the value returned is the embedding of that last call, and the sleeps
\* performed are exactly 1, 2, 4, ..., 2^(N-1) in that order (none for N = 0).
C1_ReturnAfterBackoff ==
    emb_pc = "returned" =>
        /\ max_retries >= 1
        /\ calls >= 1
        /\ calls <= max_retries
        /\ emb_result \in Vectors
        /\ Len(sleeps) = calls - 1
        /\ \A k \in 1..Len(sleeps) : sleeps[k] = 2^(k-1)

C1_Witness ==
    /\ entry = "get_embedding"
    /\ emb_pc = "returned"
    /\ max_retries = 4
    /\ calls = 4
    /\ sleeps = <<1, 2, 4>>

\* C2: the service is never called more than max_retries times; when every
\* call was answered with a rate-limit error get_embedding ends with the
\* RuntimeError "Failed after retries" after exactly max_retries calls and
\* returns nothing; with max_retries = 0 it does so without any call.
C2_ExhaustedAfterMaxRetries ==
    /\ calls <= max_retries
    /\ emb_pc = "try" => calls < max_retries
    /\ (emb_pc = "for" /\ calls = max_retries) =>
            /\ Len(sleeps) = max_retries
            /\ attempt = max_retries
    /\ (emb_pc = "raised" /\ emb_error = ExhaustedRetries) =>
            /\ calls = max_retries
            /\ Len(sleeps) = calls
            /\ emb_result = None

C2_Witness ==
    /\ entry = "get_embedding"
    /\ emb_pc = "raised"
    /\ emb_error = ExhaustedRetries
    /\ max_retries = 3
    /\ calls = 3

\* C3: once a service call has failed with an error whose text does not
\* contain "429", get_embedding has raised that very error: it did not sleep
\* for that failure, it is making no further call, and the error is not the
\* exhausted-retries error.
C3_OtherErrorPropagates ==
    (exc # NoError /\ ~Has429(exc)) =>
        /\ emb_pc = "raised"
        /\ emb_error = exc
        /\ emb_error # ExhaustedRetries
        /\ Len(sleeps) = calls - 1
        /\ emb_result = None

C3_Witness ==
    /\ emb_pc = "raised"
    /\ emb_error = TimeoutError
    /\ calls = 3
    /\ sleeps = <<1, 2>>

\* C4: no upload call ever carries an empty batch, and a run of
\* process_and_upload over N records with batch size B >= 1 that ends
\* successfully made exactly ceil(N/B) upload calls: floor(N/B) calls of
\* exactly B documents followed, when N mod B # 0, by one call of N mod B.
C4_UploadCallSizes ==
    /\ \A k \in 1..Len(uploads) : Len(uploads[k]) >= 1
    /\ pc = "done" =>
          LET N == Len(raw_docs)
              B == batch_size
          IN  /\ Len(uploads) = CeilDiv(N, B)
              /\ \A k \in 1..(N \div B) : Len(uploads[k]) = B
              /\ (N % B # 0) => Len(uploads[Len(uploads)]) = N % B

C4_Witness ==
    /\ pc = "done"
    /\ Len(raw_docs) = 5
    /\ batch_size = 2
    /\ Len(uploads) = 3
    /\ Len(uploads[3]) = 1

\* C5: when get_embedding raises for the k-th record, process_and_upload is
\* over: no later record was transformed or embedded, the uploads made are
\* exactly the floor((k-1)/B) full batches flushed before, and the documents
\* of the pending batch are in none of them.
C5_EmbeddingFailureAborts ==
    (InPipeline /\ emb_pc = "raised") =>
        LET B == batch_size
        IN  /\ pc \in {"embedding", "failed"}
            /\ pc = "failed" => error = emb_error
            /\ uuid_count = i
            /\ Len(emb_log) = i - 1
            /\ Len(uploads) = (i - 1) \div B
            /\ \A k \in 1..Len(uploads) : Len(uploads[k]) = B
            /\ Len(batch) = (i - 1) % B
            /\ \A k \in 1..Len(uploads) : \A j \in 1..Len(batch) :
                   \A m \in 1..Len(uploads[k]) : uploads[k][m] # batch[j]
            /\ Len(trace) = 2 * Len(uploads)

C5_Witness ==
    /\ pc = "failed"
    /\ emb_pc = "raised"
    /\ i = 4
    /\ batch_size = 2
    /\ Len(raw_docs) = 5
    /\ Len(uploads) = 1
    /\ Len(batch) = 1

LoadEnded == load_pc \in {"returned", "raised"}

\* what the extension of each name of BlobNames calls for
ExpectedBranch(name) ==
    IF name \in { <<"p",".","c","s","v">>, <<".","c","s","v">> }
       THEN "rows"
    ELSE IF name \in { <<"p",".","j","s","o","n">>,
                       <<"p",".","c","s","v",".","j","s","o","n">> }
       THEN "json"
    ELSE "unsupported"

\* the kind of outcome load_docs_from_blob ended with
Outcome ==
    IF load_pc = "returned" THEN load_kind
    ELSE IF load_error = UnsupportedFormat THEN "unsupported"
    ELSE "other error"

ExpectedChunk(k) ==
    IF entry = "load_products"
       THEN Get(raw_docs[k], "name", "") \o ". "
       ELSE raw_docs[k].page_content

\* C7: records are handled one at a time (a record is begun only when the
\* embedding of the previous one has come back), and in a run that ended
\* successfully the uploaded lists, concatenated in call order, hold exactly
\* one document per input record in input order, each carrying the vector
\* the embedding call for that record returned.
C7_EveryRecordUploadedOnceInOrder ==
    InPipeline =>
        /\ Len(emb_log) \in {i - 1, i}
        /\ uuid_count \in {i - 1, i}
        /\ pc = "body" => (uuid_count = i - 1 /\ Len(emb_log) = i - 1)
        /\ pc = "embedding" => (uuid_count = i /\ Len(emb_log) = i - 1)
        /\ pc = "done" =>
              LET up == Flatten(uploads)
              IN  /\ Len(up) = Len(raw_docs)
                  /\ \A k \in 1..Len(up) :
                        /\ up[k].chunk = ExpectedChunk(k)
                        /\ up[k].chunk_id = k
                        /\ up[k].text_vector = emb_log[k]

C7_Witness ==
    /\ pc = "done"
    /\ entry = "load_products"
    /\ Len(raw_docs) = 5
    /\ batch_size = 2
    /\ emb_log[1] # emb_log[2]
    /\ Flatten(uploads)[5].chunk = "5. "

\* C8: the pending batch never holds more than batch_size documents; it holds
\* exactly batch_size only between the append and the end of the upload that
\* follows it, so it is strictly smaller at every loop head and after every
\* flush check that did not flush; it is empty right after a threshold flush.
C8_BatchBelowThreshold ==
    InPipeline =>
        /\ Len(batch) <= batch_size
        /\ Len(batch) = batch_size =>
              \/ pc \in {"check", "upload", "clear"}
              \/ pc = "failed" /\ error = UploadError
        /\ pc \in {"for", "body", "embedding", "leftover"} =>
              Len(batch) < batch_size
        /\ pc = "pause" => batch = <<>>

C8_Witness ==
    /\ pc = "check"
    /\ batch_size = 2
    /\ Len(batch) = 2
    /\ Len(uploads) = 1

\* C9 as stated: every back-off sleep is followed by another call of the
\* embedding service, so an invocation that slept at all has, when it ends,
\* made more calls than sleeps.
C9_EverySleepFollowedByCall ==
    (emb_pc \in {"returned", "raised"} /\ sleeps # <<>>) => calls > Len(sleeps)

\* C9 amended: a rate-limit error on attempt k is followed by a sleep of 2^k
\* seconds; after that sleep the service is called again when k < max_retries-1,
\* whereas after the sleep of the last allowed attempt (k = max_retries-1) no
\* call is made and get_embedding raises the exhausted-retries error.
C9_SleepThenRetryUnlessLast ==
    [][ /\ emb_pc = "sleep" =>
              /\ sleeps' = Append(sleeps, 2^(calls - 1))
              /\ calls' = calls
              /\ emb_pc' = "for"
        /\ (emb_pc = "for" /\ sleeps # <<>>) =>
              IF calls < max_retries
                 THEN /\ emb_pc' = "try"
                      /\ emb_error' = NoError
                 ELSE /\ emb_pc' = "raised"
                      /\ emb_error' = ExhaustedRetries
                      /\ calls' = calls
        /\ emb_pc = "try" =>
              /\ calls' = calls + 1
              /\ emb_pc' = "sleep" <=> Has429(exc')
      ]_vars

C9_Witness ==
    /\ entry = "get_embedding"
    /\ emb_pc = "raised"
    /\ emb_error = ExhaustedRetries
    /\ max_retries = 2
    /\ sleeps = <<1, 2>>
    /\ calls = 2

Last(seq) == seq[Len(seq)]

\* C10: a threshold flush is one upload call carrying the whole batch, then
\* the emptying of the batch, then a pause of one second; every upload call
\* but the last of a run is directly followed by that pause, and whenever the
\* next record is fetched, transformed or embedded the latest upload, if any,
\* has already been followed by its pause.
C10_PauseAfterThresholdFlush ==
    InPipeline =>
        /\ \A k \in 1..(Len(trace) - 1) :
              trace[k][1] = "upload" => trace[k+1] = <<"sleep", 1>>
        /\ pc = "clear" =>
              /\ Last(uploads) = batch
              /\ Last(trace) = <<"upload", Len(batch)>>
        /\ pc = "pause" =>
              /\ batch = <<>>
              /\ Last(trace)[1] = "upload"
        /\ (pc \in {"for", "body", "embedding", "check", "upload",
                    "leftover", "final_upload"} /\ trace # <<>>) =>
              Last(trace) = <<"sleep", 1>>
        /\ Len(SelectSeq(trace, LAMBDA ev : ev[1] = "upload")) = Len(uploads)

C10_Witness ==
    /\ pc = "done"
    /\ Len(raw_docs) = 3
    /\ batch_size = 2
    /\ trace = << <<"upload", 2>>, <<"sleep", 1>>, <<"upload", 1>> >>

====
